---- MODULE Spec2Model ----
(***************************************************************************)
(* MyPromise: the promise implementation of the posts "JavaScript          *)
(* promises: The core bits / The weird bits / The static bits".            *)
(*                                                                         *)
(* A promise is an index into the sequences state, fulfilledValue and      *)
(* handlers.  One action is one call made by user code inside a            *)
(* synchronous block (a script or a timer callback), or the run of one     *)
(* microtask.  The methods of the class are operators from a world (the    *)
(* record W of all variables) to a world, so that a method that calls      *)
(* another one synchronously is evaluated inside one action.               *)
(***************************************************************************)
EXTENDS Integers, Sequences, FiniteSets, TLC

VARIABLES
    state,          \* #state of every promise
    fulfilledValue, \* #fulfilledValue of every promise
    handlers,       \* #handlers of every promise: the handleSettle closures
    microtasks,     \* the host's microtask queue (queueMicrotask)
    adoptions,      \* one entry per then.call of #resolveWithValue: its closures
    alls,           \* one entry per call of all(): resolvedValues, numPromisesResolved
    phase,          \* "sync": a synchronous block of user code runs; "idle"
    origin,         \* history: how every promise was created
    settleLog,      \* history: every assignment to #state, per promise
    invoked,        \* history: per promise, the calls of its then() handlers, in order
    adoptLog,       \* history: per adoption, the calls of its callbacks that got through
    selfResolved,   \* history: the promises resolved with themselves while pending
    delivered,      \* history: per promise, the calls of the resolve and reject
                    \* that all() and race() handed to then() and catch()
    thenReads,      \* history: the reads of value.then, as [p, v, again]: p was
                    \* resolved with v, and had read the then of v before
    inline,         \* history: a handler ran on the stack of its then() or settle
    uncaught,       \* history: an error left a microtask
    profile         \* the family of inputs user code draws from

\* Everything but the scheduling phase and the profile.
data == <<state, fulfilledValue, handlers, microtasks, adoptions, alls, origin,
          settleLog, invoked, adoptLog, delivered, selfResolved, thenReads, inline,
          uncaught>>

vars == <<data, phase, profile>>

\* The most promises user code creates in a run (by new MyPromise and by
\* calling then), and the most times a run adopts a thenable.
MaxPromises == 3
MaxAdoptions == 2
\* The most promises user code passes to all() or race() in one call.
MaxInputs == 2

-----------------------------------------------------------------------------
(* JavaScript values.  Every value is a record with a field k.             *)

Undef == [k |-> "undef"]
Plain(n) == [k |-> "val", n |-> n]
Err(n) == [k |-> "err", n |-> n]
\* new TypeError('Cannot resolve promise with itself')
TypeErr == [k |-> "typeerror"]
\* the TypeError of calling a value that is not a function
NotAFunction == [k |-> "notafunction"]
P(id) == [k |-> "promise", id |-> id]

\* A user function given to then(): op is what its body does with x.
\*   "ret": return x    "throw": throw x    "retSelf": return the promise
\*   that this then() call returned
Fn(op, x) == [k |-> "fn", op |-> op, x |-> x]
\* An object that is not a function and has a truthy member named call.
ObjWithCall == [k |-> "objWithCall"]

\* One step of user code that holds two callbacks (an executor, or the then
\* of a foreign thenable): call the first with x, call the second with x, or
\* throw x.
Step(op, x) == [op |-> op, x |-> x]

\* A foreign thenable.  ty is its typeof.  Reading its then member runs the
\* accessor get: eff is what the accessor does to the promise being resolved
\* when user code holds that promise's callbacks ("none", "res", "rej", with
\* x), and ret is how it ends: "fn" (a function: the steps), "nonfn" (a value
\* that is no function), "throw" (it throws x), "fnOnce" (the function at
\* the first read of the object, and it throws x at every later read).  steps is what the then
\* function does, synchronously, with the two callbacks it is handed; with
\* later, it keeps them and may call them in a later block.
Thenable(ty, get, steps, later) ==
    [k |-> "thenable", ty |-> ty, get |-> get, steps |-> steps, later |-> later]
Get(eff, x, ret) == [eff |-> eff, x |-> x, ret |-> ret]
PlainGet == Get("none", Undef, "fn")

\* The closures #resolveWithValue hands to then.call, by adoption index.
AdoptRes(a) == [k |-> "adoptRes", a |-> a]
AdoptRej(a) == [k |-> "adoptRej", a |-> a]

\* The closures of the static methods: the arrow function all() attaches to
\* input number index of its call a, and the resolve or reject of promise p
\* that race() and all() hand to then() and catch().
AllValue(a, index) == [k |-> "allValue", a |-> a, index |-> index]
Settler(op, p) == [k |-> "settler", op |-> op, p |-> p]
\* A function of the class itself, not of user code.
InternalFn(h) == h.k \in {"adoptRes", "adoptRej", "allValue", "settler"}

\* An array, and an index of an array that was never assigned.
ArrayVal(items) == [k |-> "array", items |-> items]
Hole == [k |-> "hole"]

\* typeof v
TypeOf(v) ==
    CASE v.k = "undef" -> "undefined"
      [] v.k = "val" -> "string"
      [] v.k \in {"err", "typeerror", "notafunction", "promise", "objWithCall",
                  "array"} -> "object"
      [] v.k \in {"fn", "adoptRes", "adoptRej", "thenFn", "allValue", "settler"} ->
            "function"
      [] v.k = "thenable" -> v.ty

\* v converted to a boolean: only undefined is falsy among the values here.
Truthy(v) == v.k # "undef"

\* (handler && handler.call): every function inherits call from
\* Function.prototype; an object has it only when it defines it.
HasCall(h) == Truthy(h) /\ (TypeOf(h) = "function" \/ h.k = "objWithCall")

\* A thenable as the Promises/A+ text quoted in the post defines it: an
\* object or function whose then member is a function.
IsThenable(v) ==
    \/ v.k = "promise"
    \/ v.k = "thenable" /\ v.get.ret \in {"fn", "fnOnce"}

-----------------------------------------------------------------------------
(* The world: the variables as one record, threaded through the methods.   *)
(* stackThens and stackSettled are the promises that then() returned and   *)
(* that were settled since the running call of user code or microtask      *)
(* began: what is on the call stack when a handler is invoked.  via is the *)
(* adoption whose callback is running (0: none), and hop the number of     *)
(* microtasks between the settling or the then() call that the running     *)
(* handleSettle answers and the running code (0: they are on one stack).   *)

W == [state |-> state, fulfilledValue |-> fulfilledValue, handlers |-> handlers,
      microtasks |-> microtasks, adoptions |-> adoptions, alls |-> alls,
      origin |-> origin,
      settleLog |-> settleLog, invoked |-> invoked, adoptLog |-> adoptLog,
      delivered |-> delivered,
      selfResolved |-> selfResolved, thenReads |-> thenReads, inline |-> inline,
      uncaught |-> uncaught,
      stackThens |-> {}, stackSettled |-> {}, via |-> 0, hop |-> 0]

Commit(w) ==
    /\ state' = w.state
    /\ fulfilledValue' = w.fulfilledValue
    /\ handlers' = w.handlers
    /\ microtasks' = w.microtasks
    /\ adoptions' = w.adoptions
    /\ alls' = w.alls
    /\ origin' = w.origin
    /\ settleLog' = w.settleLog
    /\ invoked' = w.invoked
    /\ adoptLog' = w.adoptLog
    /\ delivered' = w.delivered
    /\ selfResolved' = w.selfResolved
    /\ thenReads' = w.thenReads
    /\ inline' = w.inline
    /\ uncaught' = w.uncaught

Promises(w) == 1..Len(w.state)

\* The closure handleSettle of one then() call: the promise then() was
\* called on, the two arguments, and the promise then() returned.
HandlerRec(src, onF, onR, d) == [src |-> src, onF |-> onF, onR |-> onR, d |-> d]

\* A queued microtask: a handleSettle closure, or the arrow function that
\* callHandler queues for handler h.
\* History: hop counts the microtasks from the settling, or from the then()
\* call on a settled promise, to the task.
SettleTask(rec) == [t |-> "handleSettle", rec |-> rec, h |-> Undef, hop |-> 1]
CallTask(rec, h, hop) == [t |-> "callHandler", rec |-> rec, h |-> h, hop |-> hop]

\* What a call of a function ends with: the world after it, whether it
\* threw, and the value returned or thrown.
Returned(w, v) == [w |-> w, threw |-> FALSE, val |-> v]
Threw(w, e) == [w |-> w, threw |-> TRUE, val |-> e]

\* queueMicrotask(task)
QueueMicrotask(w, task) == [w EXCEPT !.microtasks = Append(@, task)]

\* A variant of the loop that queues nothing.
ScheduleHandlersNone(w, p) == w

\* for (const handler of this.#handlers) { queueMicrotask(handler); }
\* The array is read, never emptied.
RECURSIVE QueueAll(_, _)
QueueAll(w, recs) ==
    IF recs = <<>> THEN w
    ELSE QueueAll(QueueMicrotask(w, SettleTask(Head(recs))), Tail(recs))

ScheduleHandlers(w, p) == QueueAll(w, w.handlers[p])

\* The number of assignments to #state so far, over all promises.
RECURSIVE Settlements(_)
Settlements(log) ==
    IF log = <<>> THEN 0 ELSE Len(Head(log)) + Settlements(Tail(log))

\* this.#state = s; this.#fulfilledValue = v
\* History: inThen records that the then() call that made p is on the stack,
\* bySrc that a then() call made on p is, via the adoption whose callback
\* is running, and at the place of this
\* assignment among all assignments to #state (kept only in the profiles
\* whose properties compare settling times).
SetSettled(w, p, s, v) ==
    [w EXCEPT !.state[p] = s,
              !.fulfilledValue[p] = v,
              !.settleLog[p] = Append(@, [state |-> s, value |-> v,
                                          inThen |-> p \in w.stackThens,
                                          via |-> w.via,
                                          bySrc |-> \E d \in w.stackThens :
                                                       w.origin[d].src = p,
                                          at |-> IF profile \in {"race", "raceget"}
                                                 THEN Settlements(w.settleLog) + 1
                                                 ELSE 0]),
              !.stackSettled = @ \cup {p}]

\* History: a settling routine of p is entered.
Touch(w, p) == [w EXCEPT !.origin[p].touched = TRUE]

\* A variant in which a promise resolved with a thenable is locked in: a
\* rejection that does not come from the thenable is ignored.
RejectWithReasonLockedIn(w, p, reason) ==
    IF w.state[p] # "PENDING" THEN Touch(w, p)
    ELSE IF w.via = 0 /\ \E a \in 1..Len(w.adoptions) : w.adoptions[a].p = p
    THEN Touch(w, p)
    ELSE ScheduleHandlers(SetSettled(Touch(w, p), p, "REJECTED", reason), p)

\* A variant without the test of #state.
RejectWithReasonNoPendingCheck(w, p, reason) ==
    ScheduleHandlers(SetSettled(Touch(w, p), p, "REJECTED", reason), p)

\* #rejectWithReason(rejectReason)
RejectWithReason(w, p, reason) ==
    IF w.state[p] # "PENDING" THEN Touch(w, p)
    ELSE ScheduleHandlers(SetSettled(Touch(w, p), p, "REJECTED", reason), p)

\* The else branch of #resolveWithValue: fulfil with a value that is not
\* taken for a thenable.  No test of #state guards these assignments.
Fulfil(w, p, v) == ScheduleHandlers(SetSettled(w, p, "FULFILLED", v), p)

\* How a promise came to be: by then() called on src with onF and onR
\* (attached says whether src was pending then), or (src = 0) constructed by
\* user code ("new") or by a static method.  History of its executor: runs
\* counts its calls, thrown is what it threw (Undef: nothing) and
\* threwPending whether the promise was pending when it threw.  History of
\* the handleSettle closure of a then() call: settleRuns counts its runs as
\* a microtask and ranPending says that one found the source still pending.
\* History of its callbacks: touched says that its #resolveWithValue or its
\* #rejectWithReason was called.  held says that the call that made the
\* promise returned it to its caller.
ThenOrigin(src, onF, onR, attached) ==
    [src |-> src, onF |-> onF, onR |-> onR, attached |-> attached,
     runs |-> 0, thrown |-> Undef, threwPending |-> FALSE, arg |-> Undef,
     settleRuns |-> 0, ranPending |-> FALSE, touched |-> FALSE, held |-> TRUE]
UserOrigin ==
    [src |-> 0, onF |-> Undef, onR |-> Undef, attached |-> "new",
     runs |-> 0, thrown |-> Undef, threwPending |-> FALSE, arg |-> Undef,
     settleRuns |-> 0, ranPending |-> FALSE, touched |-> FALSE, held |-> TRUE]
\* Constructed by the static method how, called with arg.
StaticOrigin(how, arg) == [UserOrigin EXCEPT !.attached = how, !.arg = arg]

\* The first lines of constructor(executor): the fields before the executor
\* runs.
NewPromise(w, org) ==
    [w EXCEPT !.state = Append(@, "PENDING"),
              !.fulfilledValue = Append(@, Undef),
              !.handlers = Append(@, <<>>),
              !.origin = Append(@, org),
              !.settleLog = Append(@, <<>>),
              !.invoked = Append(@, <<>>),
              !.delivered = Append(@, <<>>)]

\* The functions of the class call each other: #resolveWithValue reads and
\* calls the then of its argument, a promise's then runs handleSettle inline
\* when the promise is settled, and handleSettle resolves the derived promise.
RECURSIVE ResolveWithValue(_, _, _)
RECURSIVE ReadThen(_, _, _)
RECURSIVE CallThen(_, _, _)
RECURSIVE RunSteps(_, _, _)
RECURSIVE AdoptResCall(_, _, _)
RECURSIVE Then(_, _, _, _)
RECURSIVE HandleSettle(_, _)

\* History: adoption a's callback op was called with x, passed the test of
\* hasCalledResolve and found the promise pending.
LogAdopt(w, a, op, x) ==
    IF w.state[w.adoptions[a].p] = "PENDING"
    THEN [w EXCEPT !.adoptLog[a] = Append(@, [op |-> op, x |-> x])]
    ELSE w

\* A variant without the test of hasCalledResolve in the second closure.
AdoptRejCallUnguarded(w, a, reason) ==
    [RejectWithReason([LogAdopt(w, a, "rej", reason) EXCEPT !.via = a],
                      w.adoptions[a].p, reason) EXCEPT !.via = w.via]

\* The second closure handed to then.call: (rejectReason) => { ... }
AdoptRejCall(w, a, reason) ==
    IF ~w.adoptions[a].called
    THEN [RejectWithReason([LogAdopt(w, a, "rej", reason) EXCEPT !.via = a],
                           w.adoptions[a].p, reason) EXCEPT !.via = w.via]
    ELSE w

\* The first closure handed to then.call: (result) => { ... }
AdoptResCall(w, a, result) ==
    IF ~w.adoptions[a].called
    THEN [ResolveWithValue(
              [LogAdopt(w, a, "res", result) EXCEPT !.adoptions[a].called = TRUE,
                                                    !.via = a],
              w.adoptions[a].p, result) EXCEPT !.via = w.via]
    ELSE w

\* const then = value && value.then, for promise p being resolved with v.
\* The result: the world after the accessor ran, whether it threw, and the
\* value read (or thrown).  History: thenReads records the read.  An
\* accessor of user code reaches the promise only when user code holds its
\* callbacks (the promise was constructed by user code).
ReadThen(w, p, v) ==
    IF ~Truthy(v) THEN Returned(w, v)
    ELSE LET again == \E rd \in w.thenReads : rd.p = p /\ rd.v = v
             w0 == [w EXCEPT !.thenReads =
                       @ \cup {[p |-> p, v |-> v, again |-> again]}] IN
    IF v.k = "promise" THEN Returned(w0, [k |-> "thenFn"])
    ELSE IF v.k = "thenable" THEN
        LET held == w0.origin[p].src = 0 /\ w0.origin[p].attached = "new"
            w1 == IF held /\ v.get.eff = "res" THEN ResolveWithValue(w0, p, v.get.x)
                  ELSE IF held /\ v.get.eff = "rej" THEN RejectWithReason(w0, p, v.get.x)
                  ELSE w0
        IN  CASE v.get.ret = "fn" -> Returned(w1, [k |-> "thenFn"])
              [] v.get.ret = "nonfn" -> Returned(w1, Undef)
              [] v.get.ret = "throw" -> Threw(w1, v.get.x)
              [] v.get.ret = "fnOnce" ->
                    IF \E rd \in w.thenReads : rd.v = v
                    THEN Threw(w1, v.get.x)
                    ELSE Returned(w1, [k |-> "thenFn"])
    ELSE Returned(w0, Undef)

\* The synchronous body of a foreign then(resolvePromise, rejectPromise):
\* the result is the world and whether the body threw (and what).
RunSteps(w, a, steps) ==
    IF steps = <<>> THEN Returned(w, Undef)
    ELSE LET s == Head(steps) IN
         CASE s.op = "res" -> RunSteps(AdoptResCall(w, a, s.x), a, Tail(steps))
           [] s.op = "rej" -> RunSteps(AdoptRejCall(w, a, s.x), a, Tail(steps))
           [] s.op = "throw" -> Threw(w, s.x)

\* The arrow function all() passes to then() for input number index:
\*   value => { resolvedValues[index] = value; numPromisesResolved++;
\*              if (numPromisesResolved === promises.length) resolve(resolvedValues); }
AllValueCall(w, a, index, value) ==
    LET w1 == [w EXCEPT !.alls[a].resolvedValues[index] = value,
                        !.alls[a].numPromisesResolved = @ + 1]
    IN  IF w1.alls[a].numPromisesResolved = Len(w1.alls[a].promises)
        THEN ResolveWithValue(w1, w1.alls[a].p, ArrayVal(w1.alls[a].resolvedValues))
        ELSE w1

\* handler(this.#fulfilledValue) inside the queued arrow function of
\* callHandler, for the then() call rec: what the call of h with arg does.
\* History: a call of a function of user code is appended to invoked, a call
\* of a resolve or reject handed out by all() or race() to delivered, and
\* inline records that a handler was called while the then() call that
\* attached it, or the call that settled its promise, was still running.
Invoke(w, rec, h, arg) ==
    LET entry == [d |-> rec.d, h |-> h, arg |-> arg, srcState |-> w.state[rec.src],
                  hops |-> w.hop]
        w0 == [w EXCEPT !.inline =
                  @ \/ rec.d \in w.stackThens \/ rec.src \in w.stackSettled]
        w1 == [w0 EXCEPT !.invoked[rec.src] = Append(@, entry)]
        ws == IF h.k = "settler"
              THEN [w0 EXCEPT !.delivered[h.p] =
                       Append(@, [op |-> h.op, x |-> arg, from |-> rec.src])]
              ELSE w0
    IN  CASE h.k = "fn" /\ h.op = "ret" -> Returned(w1, h.x)
          [] h.k = "fn" /\ h.op = "throw" -> Threw(w1, h.x)
          [] h.k = "fn" /\ h.op = "retSelf" -> Returned(w1, P(rec.d))
          [] h.k = "adoptRes" -> Returned(AdoptResCall(w0, h.a, arg), Undef)
          [] h.k = "adoptRej" -> Returned(AdoptRejCall(w0, h.a, arg), Undef)
          [] h.k = "allValue" -> Returned(AllValueCall(w0, h.a, h.index, arg), Undef)
          [] h.k = "settler" /\ h.op = "res" ->
                Returned(ResolveWithValue(ws, h.p, arg), Undef)
          [] h.k = "settler" /\ h.op = "rej" ->
                Returned(RejectWithReason(ws, h.p, arg), Undef)
          [] OTHER -> Threw(w, NotAFunction)

\* A variant that keeps a rejection rejected: the value a rejection handler
\* returns becomes the reason of the derived promise.
RunCallHandlerKeepsRejection(w, rec, h) ==
    LET r == Invoke(w, rec, h, w.fulfilledValue[rec.src])
    IN  IF r.threw \/ w.state[rec.src] = "REJECTED"
        THEN RejectWithReason(r.w, rec.d, r.val)
        ELSE ResolveWithValue(r.w, rec.d, r.val)

\* A variant without the try/catch: an error of the handler leaves the
\* microtask and the derived promise stays as it is.
RunCallHandlerNoCatch(w, rec, h) ==
    LET r == Invoke(w, rec, h, w.fulfilledValue[rec.src])
    IN  IF r.threw
        THEN [r.w EXCEPT !.uncaught = TRUE]
        ELSE ResolveWithValue(r.w, rec.d, r.val)

\* The arrow function callHandler queues:
\*   try { resolve(handler(this.#fulfilledValue)); } catch (e) { reject(e); }
RunCallHandler(w, rec, h) ==
    LET r == Invoke(w, rec, h, w.fulfilledValue[rec.src])
    IN  IF r.threw
        THEN RejectWithReason(r.w, rec.d, r.val)
        ELSE ResolveWithValue(r.w, rec.d, r.val)

\* A variant without queueMicrotask: the handler is called at once.
CallHandlerInline(w, rec, h) == RunCallHandler(w, rec, h)

\* callHandler(handler): the call is queued, never made inline.
CallHandler(w, rec, h) == QueueMicrotask(w, CallTask(rec, h, w.hop + 1))

\* A variant that passes a rejection on with resolve instead of reject.
HandleSettleResolvesRejection(w, rec) ==
    IF w.state[rec.src] = "FULFILLED"
    THEN IF HasCall(rec.onF)
         THEN CallHandler(w, rec, rec.onF)
         ELSE ResolveWithValue(w, rec.d, w.fulfilledValue[rec.src])
    ELSE IF HasCall(rec.onR)
         THEN CallHandler(w, rec, rec.onR)
         ELSE ResolveWithValue(w, rec.d, w.fulfilledValue[rec.src])

\* handleSettle() of the then() call rec
HandleSettle(w, rec) ==
    IF w.state[rec.src] = "FULFILLED"
    THEN IF HasCall(rec.onF)
         THEN CallHandler(w, rec, rec.onF)
         ELSE ResolveWithValue(w, rec.d, w.fulfilledValue[rec.src])
    ELSE IF HasCall(rec.onR)
         THEN CallHandler(w, rec, rec.onR)
         ELSE RejectWithReason(w, rec.d, w.fulfilledValue[rec.src])

\* A variant of then() that calls no handler when the promise it is called
\* on has settled: it passes the outcome on.
ThenSettledDropsHandlers(w, p, onF, onR) ==
    LET d == Len(w.state) + 1
        rec == HandlerRec(p, onF, onR, d)
        attached == IF w.state[p] = "PENDING" THEN "pending" ELSE "settled"
        w1 == [NewPromise(w, [ThenOrigin(p, onF, onR, attached) EXCEPT !.runs = 1])
                  EXCEPT !.stackThens = @ \cup {d}]
    IN  IF w1.state[p] = "PENDING"
        THEN [w1 EXCEPT !.handlers[p] = Append(@, rec)]
        ELSE [HandleSettle([w1 EXCEPT !.hop = 0], HandlerRec(p, Undef, Undef, d))
                 EXCEPT !.hop = w.hop]

\* A variant of then() that rejects the pending promise it is called on.
ThenSettlesSource(w, p, onF, onR) ==
    LET d == Len(w.state) + 1
        rec == HandlerRec(p, onF, onR, d)
        attached == IF w.state[p] = "PENDING" THEN "pending" ELSE "settled"
        w1 == [NewPromise(w, [ThenOrigin(p, onF, onR, attached) EXCEPT !.runs = 1])
                  EXCEPT !.stackThens = @ \cup {d}]
    IN  IF w1.state[p] = "PENDING"
        THEN ScheduleHandlers(
                 SetSettled([w1 EXCEPT !.handlers[p] = Append(@, rec)],
                            p, "REJECTED", Undef), p)
        ELSE [HandleSettle([w1 EXCEPT !.hop = 0], rec) EXCEPT !.hop = w.hop]

\* A variant of then() that queues handleSettle as a microtask when the
\* promise it is called on has settled.
ThenSettledQueuesRecord(w, p, onF, onR) ==
    LET d == Len(w.state) + 1
        rec == HandlerRec(p, onF, onR, d)
        attached == IF w.state[p] = "PENDING" THEN "pending" ELSE "settled"
        w1 == [NewPromise(w, [ThenOrigin(p, onF, onR, attached) EXCEPT !.runs = 1])
                  EXCEPT !.stackThens = @ \cup {d}]
    IN  IF w1.state[p] = "PENDING"
        THEN [w1 EXCEPT !.handlers[p] = Append(@, rec)]
        ELSE QueueMicrotask(w1, SettleTask(rec))

\* then(onFulfilled, onRejected) called on promise p: the new promise is
\* Len(w.state) + 1 and its executor stores or runs handleSettle.
Then(w, p, onF, onR) ==
    LET d == Len(w.state) + 1
        rec == HandlerRec(p, onF, onR, d)
        attached == IF w.state[p] = "PENDING" THEN "pending" ELSE "settled"
        w1 == [NewPromise(w, [ThenOrigin(p, onF, onR, attached) EXCEPT !.runs = 1])
                  EXCEPT !.stackThens = @ \cup {d}]
    IN  IF w1.state[p] = "PENDING"
        THEN [w1 EXCEPT !.handlers[p] = Append(@, rec)]
        ELSE [HandleSettle([w1 EXCEPT !.hop = 0], rec) EXCEPT !.hop = w.hop]

\* A variant without the catch around then.call: an error of then is lost.
CallThenNoCatch(w, p, v) ==
    LET a == Len(w.adoptions) + 1
        w1 == [w EXCEPT !.adoptions = Append(@, [p |-> p, called |-> FALSE, t |-> v]),
                        !.adoptLog = Append(@, <<>>)]
    IN  IF v.k = "promise"
        THEN Then(w1, v.id, AdoptRes(a), AdoptRej(a))
        ELSE RunSteps(w1, a, v.steps).w

\* then.call(value, (result) => ..., (rejectReason) => ...) and the catch
\* around it, for promise p being resolved with thenable v.
CallThen(w, p, v) ==
    LET a == Len(w.adoptions) + 1
        w1 == [w EXCEPT !.adoptions = Append(@, [p |-> p, called |-> FALSE, t |-> v]),
                        !.adoptLog = Append(@, <<>>)]
    IN  IF v.k = "promise"
        THEN Then(w1, v.id, AdoptRes(a), AdoptRej(a))
        ELSE LET r == RunSteps(w1, a, v.steps)
             IN  IF r.threw /\ ~r.w.adoptions[a].called
                 THEN RejectWithReason(r.w, p, r.val)
                 ELSE r.w

\* A variant without the test of value === this.
SelfCheckMissing(w, p, v) == w

\* if (value === this) { this.#rejectWithReason(new TypeError(...)); }
\* No return follows the call.
SelfCheck(w, p, v) ==
    IF v = P(p) THEN RejectWithReason(w, p, TypeErr) ELSE w

\* A variant that takes functions, and not objects, for thenables.
IsAdoptableWrongTypeof(v, then) ==
    TypeOf(v) = "function" /\ TypeOf(then) = "function"

\* typeof value === "object" && typeof then === "function"
IsAdoptable(v, then) ==
    TypeOf(v) = "object" /\ TypeOf(then) = "function"

\* A variant that reads value.then once to test it and once more to call it.
ResolveWithValueReadsTwice(w, p, v) ==
    IF w.state[p] # "PENDING" THEN w
    ELSE LET w0 == IF v = P(p) THEN [w EXCEPT !.selfResolved = @ \cup {p}] ELSE w
             w1 == SelfCheck(w0, p, v)
             rd == ReadThen(w1, p, v)
         IN  IF rd.threw THEN RejectWithReason(rd.w, p, rd.val)
             ELSE IF IsAdoptable(v, rd.val)
             THEN LET rd2 == ReadThen(rd.w, p, v)
                  IN  IF rd2.threw THEN RejectWithReason(rd2.w, p, rd2.val)
                      ELSE CallThen(rd2.w, p, v)
             ELSE Fulfil(rd.w, p, v)

\* #resolveWithValue(value).  History: selfResolved records that a pending
\* promise was resolved with itself.
ResolveWithValue(w, p, v) ==
    IF w.state[p] # "PENDING" THEN Touch(w, p)
    ELSE LET w0 == IF v = P(p) THEN [Touch(w, p) EXCEPT !.selfResolved = @ \cup {p}]
                   ELSE Touch(w, p)
             w1 == SelfCheck(w0, p, v)
             rd == ReadThen(w1, p, v)
         IN  IF rd.threw THEN RejectWithReason(rd.w, p, rd.val)
             ELSE IF IsAdoptable(v, rd.val)
             THEN CallThen(rd.w, p, v)
             ELSE Fulfil(rd.w, p, v)

\* History: the handleSettle closure rec runs as a microtask.
NoteRun(w, rec) ==
    [w EXCEPT !.origin[rec.d].settleRuns = @ + 1,
              !.origin[rec.d].ranPending = @ \/ w.state[rec.src] = "PENDING"]

\* One microtask, run by the host.
RunTask(w, task) ==
    IF task.t = "handleSettle"
    THEN HandleSettle([NoteRun(w, task.rec) EXCEPT !.hop = task.hop], task.rec)
    ELSE RunCallHandler([w EXCEPT !.hop = task.hop], task.rec, task.h)

\* The executor of a promise user code constructs: its steps call the two
\* functions the constructor hands it.
RECURSIVE RunExecutor(_, _, _)
RunExecutor(w, d, steps) ==
    IF steps = <<>> THEN Returned(w, Undef)
    ELSE LET s == Head(steps) IN
         CASE s.op = "res" -> RunExecutor(ResolveWithValue(w, d, s.x), d, Tail(steps))
           [] s.op = "rej" -> RunExecutor(RejectWithReason(w, d, s.x), d, Tail(steps))
           [] s.op = "throw" ->
                Threw([w EXCEPT !.origin[d].thrown = s.x,
                                !.origin[d].threwPending = (w.state[d] = "PENDING")],
                      s.x)

\* A variant without the try/catch around the executor.
ConstructorNoCatch(w, steps) ==
    LET d == Len(w.state) + 1
    IN  RunExecutor([NewPromise(w, UserOrigin) EXCEPT !.origin[d].runs = @ + 1],
                    d, steps).w

\* constructor(executor), for an executor of user code:
\*   try { executor(resolve, reject); } catch (e) { this.#rejectWithReason(e); }
Constructor(w, steps) ==
    LET d == Len(w.state) + 1
        r == RunExecutor([NewPromise(w, UserOrigin) EXCEPT !.origin[d].runs = @ + 1],
                         d, steps)
    IN  IF r.threw THEN RejectWithReason(r.w, d, r.val) ELSE r.w

\* History: the promise made for a call of the convenience method how with
\* handler h.
MadeBy(w, d, how, h) == [w EXCEPT !.origin[d].arg = [k |-> how, h |-> h]]

\* A method body that is the statement this.then(...) with no return: the
\* promise d that then() returned is dropped, the caller gets undefined.
Dropped(w, d) == [w EXCEPT !.origin[d].held = FALSE]

\* A variant that passes the handler as the fulfilment handler.
CatchAsFulfilHandler(w, p, onR) ==
    Dropped(MadeBy(Then(w, p, onR, Undef), Len(w.state) + 1, "catch", onR),
            Len(w.state) + 1)

\* A variant that returns what then() returned.
CatchReturnsPromise(w, p, onR) ==
    MadeBy(Then(w, p, Undef, onR), Len(w.state) + 1, "catch", onR)

\* catch(onRejected): this.then(undefined, onRejected), nothing returned.
Catch(w, p, onR) ==
    Dropped(MadeBy(Then(w, p, Undef, onR), Len(w.state) + 1, "catch", onR),
            Len(w.state) + 1)

\* finally(onFinally): this.then(onFinally, onFinally), nothing returned.
Finally(w, p, h) ==
    Dropped(MadeBy(Then(w, p, h, h), Len(w.state) + 1, "finally", h),
            Len(w.state) + 1)

\* A variant whose executor does not call resolve.
StaticResolveLeavesPending(w, v) ==
    NewPromise(w, [StaticOrigin("resolve", v) EXCEPT !.runs = 1])

\* static resolve(value): new MyPromise((resolve) => resolve(value))
StaticResolve(w, v) ==
    LET d == Len(w.state) + 1
    IN  ResolveWithValue(
            NewPromise(w, [StaticOrigin("resolve", v) EXCEPT !.runs = 1]), d, v)

\* static reject(value): new MyPromise((resolve, reject) => reject(value))
StaticReject(w, r) ==
    LET d == Len(w.state) + 1
    IN  RejectWithReason(
            NewPromise(w, [StaticOrigin("reject", r) EXCEPT !.runs = 1]), d, r)

\* A variant that goes through the inputs from the last to the first.
RECURSIVE AllForEachBackwards(_, _, _, _, _)
AllForEachBackwards(w, d, a, promises, i) ==
    IF i > Len(promises) THEN w
    ELSE LET n == Len(promises) - i + 1
             w1 == Then(w, promises[n], AllValue(a, n), Undef)
             w2 == Catch(w1, promises[n], Settler("rej", d))
         IN  AllForEachBackwards(w2, d, a, promises, i + 1)

\* promises.forEach((promise, index) => { promise.then(value => ...);
\* promise.catch(reject); }) of all() call a with promise d, from index i on.
RECURSIVE AllForEach(_, _, _, _, _)
AllForEach(w, d, a, promises, i) ==
    IF i > Len(promises) THEN w
    ELSE LET w1 == Then(w, promises[i], AllValue(a, i), Undef)
             w2 == Catch(w1, promises[i], Settler("rej", d))
         IN  AllForEach(w2, d, a, promises, i + 1)

\* static all(promises), promises a sequence of promises
All(w, promises) ==
    LET d == Len(w.state) + 1
        a == Len(w.alls) + 1
        org == [StaticOrigin("all", ArrayVal(promises)) EXCEPT !.runs = 1]
        w1 == [NewPromise(w, org) EXCEPT !.alls = Append(@,
                  [p |-> d, promises |-> promises,
                   resolvedValues |-> [i \in 1..Len(promises) |-> Hole],
                   numPromisesResolved |-> 0])]
    IN  AllForEach(w1, d, a, promises, 1)

\* A variant that hands only resolve to then().
RECURSIVE RaceForEachIgnoresRejection(_, _, _, _)
RaceForEachIgnoresRejection(w, d, promises, i) ==
    IF i > Len(promises) THEN w
    ELSE RaceForEachIgnoresRejection(
             Then(w, promises[i], Settler("res", d), Undef), d, promises, i + 1)

\* promises.forEach(promise => promise.then(resolve, reject)) of race()
RECURSIVE RaceForEach(_, _, _, _)
RaceForEach(w, d, promises, i) ==
    IF i > Len(promises) THEN w
    ELSE RaceForEach(Then(w, promises[i], Settler("res", d), Settler("rej", d)),
                     d, promises, i + 1)

\* A variant that fulfils the promise when there is no input, as all() is
\* meant to.
RaceSettlesEmpty(w, promises) ==
    LET d == Len(w.state) + 1
        org == [StaticOrigin("race", ArrayVal(promises)) EXCEPT !.runs = 1]
    IN  IF promises = <<>>
        THEN ResolveWithValue(NewPromise(w, org), d, ArrayVal(<<>>))
        ELSE RaceForEach(NewPromise(w, org), d, promises, 1)

\* static race(promises), promises a sequence of promises
Race(w, promises) ==
    LET d == Len(w.state) + 1
        org == [StaticOrigin("race", ArrayVal(promises)) EXCEPT !.runs = 1]
    IN  RaceForEach(NewPromise(w, org), d, promises, 1)

-----------------------------------------------------------------------------
(* The inputs of user code, by profile.                                    *)

Profiles == {"order", "throw", "flatten", "self", "adopt", "later", "fnthen", "getter",
             "nonfn", "rejthen", "all", "race", "static", "catch",
             "allget", "raceget", "finally", "finallyget", "thenthrow",
             "guard", "once", "frame", "lockin", "live",
             "dropped", "inorder"}

\* Foreign thenables: then calls back once, rejects, keeps the callbacks for
\* later, or delivers another thenable.
TRes == Thenable("object", PlainGet, <<Step("res", Plain(1))>>, FALSE)
TRej == Thenable("object", PlainGet, <<Step("rej", Err(1))>>, FALSE)
TLater == Thenable("object", PlainGet, <<>>, TRUE)
TNested == Thenable("object", PlainGet, <<Step("res", TRes)>>, FALSE)
\* A function with a then method, and an object whose then delivers one.
FThen == Thenable("function", PlainGet, <<Step("res", Plain(1))>>, FALSE)
TGivesFThen == Thenable("object", PlainGet, <<Step("res", FThen)>>, FALSE)
\* Objects whose then is an accessor: it throws, or it settles the promise
\* being resolved and returns undefined.
TGetThrow == Thenable("object", Get("none", Err(2), "throw"), <<>>, FALSE)
TGetRej == Thenable("object", Get("rej", Err(2), "nonfn"), <<>>, FALSE)
TGetRes == Thenable("object", Get("res", Plain(2), "nonfn"), <<>>, FALSE)

\* An object whose then throws before it calls a callback.
TThrows == Thenable("object", PlainGet, <<Step("throw", Err(2))>>, FALSE)

\* Objects whose then does two things with its callbacks: it calls one
\* (with a value, a reason, or a thenable that keeps its callbacks), and
\* then calls one again or throws.
Twice(first, second) == Thenable("object", PlainGet, <<first, second>>, FALSE)
FirstSteps == {Step("res", Plain(1)), Step("rej", Err(1)), Step("res", TLater)}
SecondSteps == {Step("res", Plain(5)), Step("rej", Err(5)), Step("throw", Err(6))}
GuardThenables ==
    {Twice(f, s) : f \in FirstSteps, s \in SecondSteps}
        \ {Twice(Step("rej", Err(1)), Step("rej", Err(5))),
           Twice(Step("res", TLater), Step("res", Plain(5)))}

\* An object whose then is an accessor that hands out the function only at
\* its first read; the function delivers Plain(n).
Once(n) ==
    Thenable("object", Get("none", Err(n), "fnOnce"), <<Step("res", Plain(n))>>, FALSE)

\* A thenable that user code rejects with.
TReason == Thenable("object", PlainGet, <<Step("res", Plain(4))>>, FALSE)

ForeignThenables ==
    CASE profile = "adopt" -> {TRes, TRej, TNested}
      [] profile \in {"later", "lockin"} -> {TLater}
      [] profile = "fnthen" -> {FThen, TGivesFThen}
      [] profile = "getter" -> {TGetThrow, TGetRej, TGetRes}
      [] profile = "finallyget" -> {TGetRes}
      [] profile = "thenthrow" -> {TGetThrow, TThrows}
      [] profile = "guard" -> GuardThenables
      [] OTHER -> {}

\* The values user code passes to a resolve callback that is not the
\* callback of p; for the callback of p, also p itself.  Where the inputs of
\* all() and race() must be told apart, promise p is resolved with Plain(p).
ResolveValues(w) ==
    {Plain(1)} \cup ForeignThenables
               \cup (IF profile = "flatten" /\ w.state # <<>> THEN {P(1)} ELSE {})
ResolveValuesOf(w, p) ==
    IF profile \in {"all", "race", "inorder"} THEN {Plain(p)}
    ELSE IF profile \in {"guard", "lockin"} THEN {Plain(1)}
    ELSE IF profile = "once" THEN {Once(p)}
    ELSE IF profile \in {"allget", "raceget"} THEN {Plain(p), TGetRej}
    ELSE ResolveValues(w) \cup (IF profile = "self" THEN {P(p)} ELSE {})

\* The reasons user code rejects with or throws.
Reasons == IF profile = "rejthen" THEN {TReason} ELSE {Err(1)}
\* The reasons user code rejects promise p with.
ReasonsOf(p) ==
    IF profile \in {"all", "race", "allget", "raceget", "inorder"} THEN {Err(p)}
    ELSE Reasons

\* The then() calls whose fulfilment handler returns a foreign thenable: each
\* takes one adoption when the handler has run. The program that builds one
\* chain makes one such call at most.
ReturnsThenable(w) ==
    {d \in Promises(w) :
        /\ w.origin[d].src # 0
        /\ w.origin[d].onF.k = "fn"
        /\ w.origin[d].onF.x.k = "thenable"}

\* The pairs of values user code passes to then().
HandlerPairs(w) ==
    CASE profile = "order" ->
            {<<Undef, Undef>>, <<Fn("ret", Plain(2)), Undef>>,
             <<Undef, Fn("ret", Plain(2))>>,
             <<Fn("ret", Plain(2)), Fn("ret", Plain(3))>>}
      [] profile = "throw" ->
            {<<Fn("throw", Err(2)), Undef>>, <<Undef, Fn("throw", Err(2))>>,
             <<Fn("ret", Plain(2)), Fn("ret", Plain(3))>>}
      [] profile = "flatten" ->
            {<<Fn("ret", P(1)), Undef>>}
      [] profile = "self" ->
            {<<Undef, Undef>>, <<Fn("retSelf", Undef), Undef>>}
      [] profile = "adopt" -> {<<Undef, Undef>>, <<Fn("ret", TRes), Undef>>}
      [] profile = "fnthen" -> {<<Undef, Undef>>, <<Fn("ret", FThen), Undef>>}
      [] profile = "later" -> {<<Fn("ret", Plain(3)), Undef>>}
      [] profile = "frame" -> {<<Fn("ret", Plain(3)), Undef>>}
      [] profile = "lockin" -> {<<Undef, Undef>>}
      [] profile = "dropped" -> {<<Fn("ret", Plain(3)), Fn("ret", Plain(3))>>}
      [] profile = "live" ->
            {<<Undef, Undef>>, <<Fn("ret", Plain(2)), Fn("throw", Err(2))>>}
                \cup (IF ReturnsThenable(w) = {}
                      THEN {<<Fn("ret", TRes), Undef>>} ELSE {})
      [] profile = "guard" ->
            {<<Undef, Undef>>} \cup {<<Fn("ret", t), Undef>> : t \in GuardThenables}
      [] profile = "once" ->
            {<<Undef, Undef>>, <<Fn("ret", Once(Len(w.state) + 1)), Undef>>}
      [] profile = "thenthrow" ->
            {<<Undef, Undef>>, <<Fn("ret", TThrows), Fn("ret", TGetThrow)>>}
      [] profile = "nonfn" ->
            {<<Plain(2), Plain(2)>>, <<ObjWithCall, ObjWithCall>>,
             <<Fn("ret", Plain(2)), Undef>>}
      [] OTHER -> {<<Undef, Undef>>, <<Fn("ret", Plain(2)), Fn("ret", Plain(3))>>}

\* The executors of user code: at most two steps.
ExecutorSteps(w) ==
    LET res == {Step("res", x) : x \in ResolveValues(w)}
        rej == {Step("rej", x) : x \in Reasons}
        thr == {Step("throw", Err(3))}
    IN  CASE profile = "order" -> {<<>>, <<Step("res", Plain(1))>>}
          [] profile = "throw" ->
                {<<>>} \cup {<<s>> : s \in res \cup rej \cup thr}
                       \cup {<<s, t>> : s \in res \cup rej, t \in thr}
          [] profile \in {"flatten", "frame"} -> {<<>>}
          [] profile = "once" -> {<<>>, <<Step("res", Once(Len(w.state) + 1))>>}
          [] profile = "guard" -> {<<>>, <<Step("res", Plain(1))>>}
          [] profile \in {"self", "dropped"} ->
                {<<>>, <<Step("res", Plain(1))>>, <<Step("rej", Err(1))>>}
          [] profile = "rejthen" -> {<<>>} \cup {<<s>> : s \in res \cup rej}
          [] profile = "live" ->
                IF w.state # <<>> THEN {}
                ELSE {<<>>} \cup {<<s>> : s \in res \cup rej}
          [] profile \in {"allget", "raceget"} -> {<<>>}
          [] profile \in {"all", "race", "inorder"} ->
                {<<>>, <<Step("res", Plain(Len(w.state) + 1))>>,
                 <<Step("rej", Err(Len(w.state) + 1))>>}
          [] profile = "lockin" ->
                {<<Step("res", TLater)>>, <<Step("res", TLater), Step("throw", Err(3))>>}
          [] profile = "later" ->
                {<<>>, <<Step("res", TLater)>>} \cup {<<Step("res", TLater), t>> : t \in thr}
          [] OTHER -> {<<>>} \cup {<<s>> : s \in res}

\* The values user code passes to catch().
CatchHandlers ==
    IF profile = "frame" THEN {Fn("ret", Plain(2))}
    ELSE {Fn("ret", Plain(2)), Fn("throw", Err(2))}

\* The values user code passes to finally().
FinallyHandlers ==
    IF profile = "frame" THEN {Fn("ret", Plain(2))}
    ELSE {Fn("ret", Plain(2)), Fn("throw", Err(2))}

\* What a foreign thenable that kept its callbacks calls them with.
LaterValues == {Plain(2)}

-----------------------------------------------------------------------------
(* Actions.                                                                *)

\* No promise exists yet; user code draws its inputs from profile pr.
InitWith(pr) ==
    /\ state = <<>>
    /\ fulfilledValue = <<>>
    /\ handlers = <<>>
    /\ microtasks = <<>>
    /\ adoptions = <<>>
    /\ alls = <<>>
    /\ phase = "sync"
    /\ origin = <<>>
    /\ settleLog = <<>>
    /\ invoked = <<>>
    /\ adoptLog = <<>>
    /\ delivered = <<>>
    /\ selfResolved = {}
    /\ thenReads = {}
    /\ inline = FALSE
    /\ uncaught = FALSE
    /\ profile = pr

\* The initial states, of any profile and of each one.
Init == \E pr \in Profiles : InitWith(pr)
InitOrder == InitWith("order")
InitThrow == InitWith("throw")
InitFlatten == InitWith("flatten")
InitSelf == InitWith("self")
InitAdopt == InitWith("adopt")
InitLater == InitWith("later")
InitFnThen == InitWith("fnthen")
InitGetter == InitWith("getter")
InitNonFn == InitWith("nonfn")
InitRejThen == InitWith("rejthen")
InitAll == InitWith("all")
InitRace == InitWith("race")
InitStatic == InitWith("static")
InitCatch == InitWith("catch")
InitAllGet == InitWith("allget")
InitRaceGet == InitWith("raceget")
InitFinally == InitWith("finally")
InitFinallyGet == InitWith("finallyget")
InitThenThrow == InitWith("thenthrow")
InitGuard == InitWith("guard")
InitOnce == InitWith("once")
InitFrame == InitWith("frame")
InitLockIn == InitWith("lockin")
InitLive == InitWith("live")
InitDropped == InitWith("dropped")
InitInOrder == InitWith("inorder")

\* The promises user code made: all but those of the then() calls that
\* #resolveWithValue, all() and race() make.
UserMade(w) ==
    {p \in Promises(w) : ~InternalFn(w.origin[p].onF) /\ ~InternalFn(w.origin[p].onR)}

\* The promises user code has a reference to: those that a constructor, a
\* static method or then() returned to it.
Reachable(w) == {p \in UserMade(w) : w.origin[p].held}

\* A step is possible when it stays within the bounds.
Fits(w) ==
    /\ Cardinality(UserMade(w)) <= MaxPromises
    /\ Len(w.adoptions) <= MaxAdoptions

\* User code, in a synchronous block: new MyPromise(executor)
Construct ==
    /\ phase = "sync"
    /\ \E steps \in ExecutorSteps(W) :
          LET w == Constructor(W, steps) IN Fits(w) /\ Commit(w)
    /\ UNCHANGED <<phase, profile>>

\* The promises whose resolve and reject user code holds.
Held == {p \in Promises(W) : origin[p].src = 0 /\ origin[p].attached = "new"}

\* User code calls the resolve it was handed by the constructor of p.
CallResolve ==
    /\ phase = "sync"
    /\ \E p \in Held : \E v \in ResolveValuesOf(W, p) :
          LET w == ResolveWithValue(W, p, v) IN Fits(w) /\ Commit(w)
    /\ UNCHANGED <<phase, profile>>

\* A variant in which reject treats its argument as resolve does.
CallRejectAdopts ==
    /\ phase = "sync"
    /\ \E p \in Held : \E r \in Reasons :
          LET w == ResolveWithValue(W, p, r) IN Fits(w) /\ Commit(w)
    /\ UNCHANGED <<phase, profile>>

\* User code calls the reject it was handed by the constructor of p.
CallReject ==
    /\ phase = "sync"
    /\ \E p \in Held : \E r \in ReasonsOf(p) : Commit(RejectWithReason(W, p, r))
    /\ UNCHANGED <<phase, profile>>

\* The promises user code calls then() on: any promise it holds, or, in
\* the program that builds one chain, the promise made last.
ThenTargets(w) ==
    IF profile = "live" THEN {p \in Promises(w) : p = Len(w.state)}
    ELSE Reachable(w)

\* User code calls p.then(onF, onR).
CallThenMethod ==
    /\ phase = "sync"
    /\ \E p \in ThenTargets(W) : \E h \in HandlerPairs(W) :
          LET w == Then(W, p, h[1], h[2]) IN Fits(w) /\ Commit(w)
    /\ UNCHANGED <<phase, profile>>

\* A foreign thenable that kept the callbacks of adoption a calls one.
ThenableCallsLater ==
    /\ phase = "sync"
    /\ \E a \in 1..Len(adoptions) :
          /\ adoptions[a].t.k = "thenable"
          /\ adoptions[a].t.later
          /\ \/ \E x \in LaterValues :
                  LET w == AdoptResCall(W, a, x) IN Fits(w) /\ Commit(w)
             \/ \E r \in Reasons : Commit(AdoptRejCall(W, a, r))
    /\ UNCHANGED <<phase, profile>>

\* The sequences of promises user code passes to all() and race(): up to
\* MaxInputs different promises it made, in any order.
InputSeqs(w) ==
    LET from == IF profile \in {"frame", "inorder"}
                THEN {p \in Reachable(w) : w.origin[p].attached = "new"}
                ELSE Reachable(w)
    IN  {inputs \in UNION {[1..n -> from] : n \in 0..MaxInputs} :
            \A i, j \in 1..Len(inputs) : i # j => inputs[i] # inputs[j]}

\* User code calls MyPromise.all(promises).
CallAll ==
    /\ phase = "sync"
    /\ \E promises \in InputSeqs(W) :
          LET w == All(W, promises) IN Fits(w) /\ Commit(w)
    /\ UNCHANGED <<phase, profile>>

\* User code calls MyPromise.race(promises).
CallRace ==
    /\ phase = "sync"
    /\ \E promises \in InputSeqs(W) :
          LET w == Race(W, promises) IN Fits(w) /\ Commit(w)
    /\ UNCHANGED <<phase, profile>>

\* User code calls MyPromise.resolve(v).
CallStaticResolve ==
    /\ phase = "sync"
    /\ \E v \in ResolveValues(W) :
          LET w == StaticResolve(W, v) IN Fits(w) /\ Commit(w)
    /\ UNCHANGED <<phase, profile>>

\* User code calls MyPromise.reject(r).
CallStaticReject ==
    /\ phase = "sync"
    /\ \E r \in Reasons :
          LET w == StaticReject(W, r) IN Fits(w) /\ Commit(w)
    /\ UNCHANGED <<phase, profile>>

\* User code calls p.catch(onR).
CallCatchMethod ==
    /\ phase = "sync"
    /\ \E p \in Reachable(W) : \E h \in CatchHandlers :
          LET w == Catch(W, p, h) IN Fits(w) /\ Commit(w)
    /\ UNCHANGED <<phase, profile>>

\* User code calls p.finally(h).
CallFinallyMethod ==
    /\ phase = "sync"
    /\ \E p \in Reachable(W) : \E h \in FinallyHandlers :
          LET w == Finally(W, p, h) IN Fits(w) /\ Commit(w)
    /\ UNCHANGED <<phase, profile>>

\* The synchronous block of user code returns to the host.
EndBlock ==
    /\ phase = "sync"
    /\ phase' = "idle"
    /\ UNCHANGED <<data, profile>>

\* The host runs the oldest microtask; a microtask is a block of its own.
RunMicrotask ==
    /\ phase = "idle"
    /\ microtasks # <<>>
    /\ \E w \in {RunTask([W EXCEPT !.microtasks = Tail(@)], Head(microtasks))} :
            Fits(w) /\ Commit(w)
    /\ UNCHANGED <<phase, profile>>

\* With the microtask queue drained, the host starts the next block of user
\* code (a timer or an event callback).
BeginBlock ==
    /\ phase = "idle"
    /\ microtasks = <<>>
    /\ phase' = "sync"
    /\ UNCHANGED <<data, profile>>

\* The calls of user code on promises and the host's scheduling.
NextCore ==
    \/ Construct
    \/ CallResolve
    \/ CallReject
    \/ CallThenMethod
    \/ EndBlock
    \/ RunMicrotask
    \/ BeginBlock

\* The calls of user code with all(), with race(), with resolve() and
\* reject(), and with catch().
NextAll ==
    \/ Construct
    \/ CallResolve
    \/ CallReject
    \/ CallAll
    \/ EndBlock
    \/ RunMicrotask
    \/ BeginBlock

NextRace ==
    \/ Construct
    \/ CallResolve
    \/ CallReject
    \/ CallRace
    \/ EndBlock
    \/ RunMicrotask
    \/ BeginBlock

NextStatic ==
    \/ CallStaticResolve
    \/ CallStaticReject
    \/ CallThenMethod
    \/ EndBlock
    \/ RunMicrotask
    \/ BeginBlock

NextCatch ==
    \/ Construct
    \/ CallResolve
    \/ CallReject
    \/ CallCatchMethod
    \/ EndBlock
    \/ RunMicrotask
    \/ BeginBlock

NextFinally ==
    \/ Construct
    \/ CallResolve
    \/ CallReject
    \/ CallFinallyMethod
    \/ EndBlock
    \/ RunMicrotask
    \/ BeginBlock

\* The calls of every method that takes or is called on a promise.
NextFrame ==
    \/ NextCore
    \/ CallCatchMethod
    \/ CallFinallyMethod
    \/ CallAll
    \/ CallRace

\* The calls of the two static methods that take a sequence of promises.
NextInputs ==
    \/ Construct
    \/ CallAll
    \/ CallRace
    \/ EndBlock
    \/ RunMicrotask
    \/ BeginBlock

\* The calls of the three instance methods.
NextMethods ==
    \/ NextCore
    \/ CallCatchMethod
    \/ CallFinallyMethod

\* With foreign thenables that call back in a later block.
NextLater ==
    \/ NextCore
    \/ ThenableCallsLater

Next ==
    \/ NextLater
    \/ CallAll
    \/ CallRace
    \/ CallStaticResolve
    \/ CallStaticReject
    \/ CallCatchMethod
    \/ CallFinallyMethod

Spec == Init /\ [][Next]_vars

\* One specification per profile of inputs.
SpecOrder == InitOrder /\ [][NextCore]_vars
SpecThrow == InitThrow /\ [][NextCore]_vars
SpecFlatten == InitFlatten /\ [][NextCore]_vars
SpecSelf == InitSelf /\ [][NextCore]_vars
SpecAdopt == InitAdopt /\ [][NextCore]_vars
SpecLater == InitLater /\ [][NextLater]_vars
SpecFnThen == InitFnThen /\ [][NextCore]_vars
SpecGetter == InitGetter /\ [][NextCore]_vars
SpecNonFn == InitNonFn /\ [][NextCore]_vars
SpecRejThen == InitRejThen /\ [][NextCore]_vars
SpecAll == InitAll /\ [][NextAll]_vars
SpecRace == InitRace /\ [][NextRace]_vars
SpecStatic == InitStatic /\ [][NextStatic]_vars
SpecCatch == InitCatch /\ [][NextCatch]_vars
SpecAllGet == InitAllGet /\ [][NextAll]_vars
SpecRaceGet == InitRaceGet /\ [][NextRace]_vars
SpecFinally == InitFinally /\ [][NextFinally]_vars
SpecFinallyGet == InitFinallyGet /\ [][NextFinally]_vars
SpecThenThrow == InitThenThrow /\ [][NextCore]_vars
SpecGuard == InitGuard /\ [][NextLater]_vars
SpecOnce == InitOnce /\ [][NextCore]_vars
SpecFrame == InitFrame /\ [][NextFrame]_vars
SpecLockIn == InitLockIn /\ [][NextLater]_vars
SpecDropped == InitDropped /\ [][NextMethods]_vars
SpecInOrder == InitInOrder /\ [][NextInputs]_vars

\* With fairness: a synchronous block of user code returns, and the host
\* runs the microtasks that are queued.
SpecLive ==
    /\ InitLive
    /\ [][NextCore]_vars
    /\ WF_vars(EndBlock)
    /\ WF_vars(RunMicrotask)

-----------------------------------------------------------------------------
(* Properties.                                                             *)

\* The then() calls made on promise src whose handlers were called, in the
\* order of the calls of the handlers.
Calls(src) == invoked[src]
Derived == {d \in 1..Len(state) : origin[d].src # 0}
Settled(p) == state[p] # "PENDING"

\* C1: the state of a promise leaves PENDING at most once and, from then on,
\* neither the state nor the settled value is assigned again: #state is
\* assigned at most once in the life of a promise, and a settled promise
\* holds what that one assignment stored.
C1_SettlesOnce ==
    \A p \in 1..Len(state) :
        /\ Len(settleLog[p]) <= 1
        /\ Settled(p) <=> settleLog[p] # <<>>
        /\ Settled(p) =>
              /\ state[p] = settleLog[p][1].state
              /\ fulfilledValue[p] = settleLog[p][1].value

\* C2: no handler is called while the then() call that attached it, or the
\* call that settled its promise, is still running: every call of a handler
\* is made from a later microtask.
C2_HandlersDeferred == inline = FALSE

\* C2 witness: handlers were called for a then() made while the promise was
\* pending and for a then() made after it had settled.
C2_Witness ==
    \E src \in 1..Len(state) : \E i, j \in 1..Len(Calls(src)) :
        /\ origin[Calls(src)[i].d].attached = "pending"
        /\ origin[Calls(src)[j].d].attached = "settled"

\* C3: of two then() calls on the same promise, the handler of the earlier
\* call is called before the handler of the later call.
C3_AttachmentOrder ==
    \A src \in 1..Len(state) : \A i, j \in 1..Len(Calls(src)) :
        i < j => Calls(src)[i].d < Calls(src)[j].d

\* C4: a promise whose resolve callback is called with the promise itself
\* (while it is pending) is REJECTED with the type error: it is neither
\* FULFILLED nor left PENDING.
C4_SelfResolutionRejects ==
    \A p \in selfResolved :
        state[p] = "REJECTED" /\ fulfilledValue[p] = TypeErr

\* C4 witness: a promise was resolved with itself by a call of its resolve
\* callback, and another by a handler that returned the promise then() made.
C4_Witness ==
    \E p, d \in selfResolved : origin[p].src = 0 /\ origin[d].src # 0

\* C5: a promise resolved with a thenable takes the outcome of the first
\* callback the thenable calls while the promise is pending: the reason it
\* delivers, or the value it delivers, adopting that value in turn when it
\* is itself a thenable (so that it is never stored as the fulfilled value).
C5_TakesThenableOutcome ==
    \A a \in 1..Len(adoptions) :
        adoptLog[a] # <<>> =>
            LET first == adoptLog[a][1]
                p == adoptions[a].p
            IN  /\ first.op = "rej" =>
                      state[p] = "REJECTED" /\ fulfilledValue[p] = first.x
                /\ first.op = "res" /\ ~IsThenable(first.x) =>
                      state[p] = "FULFILLED" /\ fulfilledValue[p] = first.x
                /\ first.op = "res" /\ IsThenable(first.x) =>
                      ~(state[p] = "FULFILLED" /\ fulfilledValue[p] = first.x)

\* C6: the settled value of a FULFILLED promise is never a thenable, be it
\* an object or a function with a callable then.
C6_NeverFulfilledWithThenable ==
    \A p \in 1..Len(state) :
        state[p] = "FULFILLED" => ~IsThenable(fulfilledValue[p])

\* C7: the constructor calls the executor exactly once, and a promise whose
\* executor threw e while the promise was pending is REJECTED with e.
C7_ExecutorThrowRejects ==
    \A p \in 1..Len(state) :
        /\ origin[p].runs = 1
        /\ origin[p].thrown # Undef /\ origin[p].threwPending =>
              state[p] = "REJECTED" /\ fulfilledValue[p] = origin[p].thrown

\* C7 witness: an executor threw before it had settled its promise.
C7_Witness ==
    \E p \in 1..Len(state) : origin[p].thrown # Undef /\ origin[p].threwPending

\* C8: when a handler returns a plain value r the derived promise is
\* FULFILLED with r, when it throws e the derived promise is REJECTED with
\* e; the source promise keeps the state and value it had when the handler
\* was called, and no error leaves the microtask.
C8_HandlerOutcome ==
    /\ ~uncaught
    /\ \A src \in 1..Len(state) : \A i \in 1..Len(Calls(src)) :
          LET c == Calls(src)[i] IN
          /\ state[src] = c.srcState /\ fulfilledValue[src] = c.arg
          /\ c.h.op = "throw" =>
                state[c.d] = "REJECTED" /\ fulfilledValue[c.d] = c.h.x
          /\ c.h.op = "ret" /\ c.h.x.k = "val" =>
                state[c.d] = "FULFILLED" /\ fulfilledValue[c.d] = c.h.x

\* C8 witness: a handler threw and another returned a value.
C8_Witness ==
    \E s1, s2 \in 1..Len(state) :
        \E i \in 1..Len(Calls(s1)) : \E j \in 1..Len(Calls(s2)) :
            Calls(s1)[i].h.op = "throw" /\ Calls(s2)[j].h.op = "ret"

\* The then() call that made d has no callable handler for the way its
\* source promise settled.
PassesThrough(d) ==
    \/ state[origin[d].src] = "FULFILLED" /\ ~HasCall(origin[d].onF)
    \/ state[origin[d].src] = "REJECTED" /\ ~HasCall(origin[d].onR)

\* C9: a then() call with no handler for the way its promise settled yields
\* a promise that settles the same way with the same value (never a
\* different one, and no later than the draining of the microtask queue),
\* and every handler is called with the settled value of the promise it was
\* attached to: a rejection travels unchanged down a chain of then() calls
\* without rejection handlers to the first rejection handler.
C9_PassThrough ==
    /\ \A d \in Derived :
          PassesThrough(d) =>
              /\ Settled(d) =>
                    /\ state[d] = state[origin[d].src]
                    /\ fulfilledValue[d] = fulfilledValue[origin[d].src]
              /\ microtasks = <<>> => Settled(d)
    /\ \A src \in 1..Len(state) : \A i \in 1..Len(Calls(src)) :
          Calls(src)[i].arg = fulfilledValue[src]

\* C9 witness: a rejection handler attached to a derived promise was called
\* with the reason its source's source was rejected with.
C9_Witness ==
    \E d \in Derived : \E i \in 1..Len(Calls(d)) :
        /\ state[d] = "REJECTED"
        /\ PassesThrough(d)
        /\ origin[origin[d].src].src = 0
        /\ Calls(d)[i].arg = fulfilledValue[origin[d].src]

\* C10: when a fulfilment handler returns promise q, the promise d that
\* then() made never holds q as its value; it settles as q does, with q's
\* value or reason, no later than the draining of the microtask queue after
\* q settled.
C10_Flattening ==
    \A src \in 1..Len(state) : \A i \in 1..Len(Calls(src)) :
        LET c == Calls(src)[i] IN
        c.h.op = "ret" /\ c.h.x.k = "promise" =>
            LET q == c.h.x.id IN
            /\ fulfilledValue[c.d] # P(q)
            /\ Settled(c.d) =>
                  state[c.d] = state[q] /\ fulfilledValue[c.d] = fulfilledValue[q]
            /\ Settled(q) /\ microtasks = <<>> => Settled(c.d)

\* C10 witness: a handler returned a promise that was still pending, that
\* promise was rejected later, and the promise then() made has rejected.
C10_Witness ==
    \E src \in 1..Len(state) : \E i \in 1..Len(Calls(src)) :
        LET c == Calls(src)[i] IN
        /\ c.h.op = "ret" /\ c.h.x.k = "promise"
        /\ c.h.x.id # src
        /\ state[c.d] = "REJECTED"

\* C11: when a rejection handler is called and returns the plain value r,
\* the derived promise is FULFILLED with r, and the fulfilment handler of
\* that then() call is not called: after a handler threw, the next then()
\* of the chain with a rejection handler recovers.
C11_Recovery ==
    \A src \in 1..Len(state) : \A i \in 1..Len(Calls(src)) :
        LET c == Calls(src)[i] IN
        c.srcState = "REJECTED" =>
            /\ c.h = origin[c.d].onR
            /\ c.h.op = "ret" /\ c.h.x.k = "val" =>
                  state[c.d] = "FULFILLED" /\ fulfilledValue[c.d] = c.h.x

\* C11 witness: a promise fulfilled, the handler of its then() threw, and
\* the rejection handler of the next then() was called with what was thrown
\* and returned.
C11_Witness ==
    \E src \in Derived : \E i \in 1..Len(Calls(src)) :
        LET c == Calls(src)[i] IN
        /\ state[origin[src].src] = "FULFILLED"
        /\ origin[src].onF.k = "fn" /\ origin[src].onF.op = "throw"
        /\ c.srcState = "REJECTED"
        /\ c.arg = origin[src].onF.x
        /\ origin[c.d].onF.k = "fn"
        /\ state[c.d] = "FULFILLED"

\* The handler that the then() call that made d has for the way its source
\* promise settled.
ApplicableHandler(d) ==
    IF state[origin[d].src] = "FULFILLED" THEN origin[d].onF ELSE origin[d].onR

\* C12: a handler argument of then() that is present but is not a function
\* is treated as an absent one: it causes no rejection, and the derived
\* promise takes the outcome of the source promise unchanged.
C12_NonCallableIgnored ==
    \A d \in Derived :
        /\ Settled(origin[d].src)
        /\ Truthy(ApplicableHandler(d))
        /\ TypeOf(ApplicableHandler(d)) # "function"
        => /\ Settled(d) =>
                 /\ state[d] = state[origin[d].src]
                 /\ fulfilledValue[d] = fulfilledValue[origin[d].src]
           /\ microtasks = <<>> => Settled(d)

\* C13: the promise a then() call returns is never settled while that call
\* is still running: it is PENDING when then() returns, whatever the state
\* of the source promise and whether or not there is a handler to call.
C13_DerivedPendingOnReturn ==
    \A d \in Derived : \A i \in 1..Len(settleLog[d]) : ~settleLog[d][i].inThen

\* C14: a reason is stored and passed on as it is.  Where the reasons user
\* code rejects with are thenables: a promise settled with a thenable is
\* REJECTED with it by the one assignment of its state, every REJECTED
\* promise holds the thenable itself, the then member of a thenable is never
\* read and never called, and rejection handlers are called with the reason.
C14_ReasonStoredAsIs ==
    /\ adoptions = <<>>
    /\ \A rd \in thenReads : ~IsThenable(rd.v)
    /\ \A p \in 1..Len(state) :
          /\ state[p] = "REJECTED" => fulfilledValue[p] \in Reasons
          /\ state[p] = "FULFILLED" => ~IsThenable(fulfilledValue[p])
          /\ Len(settleLog[p]) <= 1
    /\ \A src \in 1..Len(state) : \A i \in 1..Len(Calls(src)) :
          Calls(src)[i].srcState = "REJECTED" =>
              Calls(src)[i].arg = fulfilledValue[src]

\* C14 witness: a promise was rejected with a thenable by user code and a
\* rejection handler was called with that thenable.
C14_Witness ==
    \E src \in 1..Len(state) : \E i \in 1..Len(Calls(src)) :
        /\ origin[src].src = 0
        /\ state[src] = "REJECTED"
        /\ IsThenable(Calls(src)[i].arg)

\* The promise and the inputs of the calls of all() and of race().
AllCalls == {q \in 1..Len(state) : origin[q].attached = "all"}
RaceCalls == {q \in 1..Len(state) : origin[q].attached = "race"}
Inputs(q) == origin[q].arg.items
AllInputsFulfilled(q) ==
    \A i \in 1..Len(Inputs(q)) : state[Inputs(q)[i]] = "FULFILLED"

\* C15: the promise of all(inputs), for at least one input, is FULFILLED
\* only when every input is, and then with the sequence of the inputs'
\* values in input order; and once every input has fulfilled and the
\* microtask queue is drained, it is FULFILLED.
C15_AllFulfils ==
    \A q \in AllCalls :
        Inputs(q) # <<>> =>
        /\ state[q] = "FULFILLED" =>
              /\ AllInputsFulfilled(q)
              /\ fulfilledValue[q] =
                    ArrayVal([i \in 1..Len(Inputs(q)) |-> fulfilledValue[Inputs(q)[i]]])
        /\ AllInputsFulfilled(q) /\ microtasks = <<>> => state[q] = "FULFILLED"

\* The reasons that the catch() handlers of all() call q were called with,
\* in the order of the calls.
Rejections(q) == SelectSeq(delivered[q], LAMBDA c : c.op = "rej")

\* C16: the promise of all(inputs) is REJECTED as soon as the rejection of an
\* input is processed, with the reason of the first rejection processed,
\* whatever the state of the other inputs and whatever they do later; and
\* once an input has rejected and the microtask queue is drained, it is
\* REJECTED.
C16_AllRejectsFirst ==
    \A q \in AllCalls :
        /\ Rejections(q) # <<>> =>
              state[q] = "REJECTED" /\ fulfilledValue[q] = Rejections(q)[1].x
        /\ state[q] = "REJECTED" => Rejections(q) # <<>>
        /\ \A i \in 1..Len(Inputs(q)) :
              state[Inputs(q)[i]] = "REJECTED" /\ microtasks = <<>> =>
                  state[q] = "REJECTED"

\* C17: the promise of all() called with no inputs is FULFILLED with the
\* empty sequence, from the moment the call returns.
C17_AllOfNothing ==
    \A q \in AllCalls :
        Inputs(q) = <<>> =>
            state[q] = "FULFILLED" /\ fulfilledValue[q] = ArrayVal(<<>>)

\* The inputs of race() call q that have settled, and the place of the
\* settling of input p among all settlings.
SettledInputs(q) == {i \in 1..Len(Inputs(q)) : Settled(Inputs(q)[i])}
SettledAt(p) == settleLog[p][Len(settleLog[p])].at
\* Input i was already settled when race() call q was made.
SettledBeforeCall(q, i) ==
    \E d \in Derived :
        /\ origin[d].src = Inputs(q)[i]
        /\ origin[d].onF = Settler("res", q)
        /\ origin[d].attached = "settled"

Winner(q) ==
    LET before == {i \in SettledInputs(q) : SettledBeforeCall(q, i)}
    IN  IF before # {}
        THEN CHOOSE i \in before : \A j \in before : i <= j
        ELSE CHOOSE i \in SettledInputs(q) :
                 \A j \in SettledInputs(q) :
                     SettledAt(Inputs(q)[i]) <= SettledAt(Inputs(q)[j])

C19_StaticResolveReject ==
    \A q \in 1..Len(state) :
        /\ origin[q].attached = "resolve" /\ ~IsThenable(origin[q].arg) =>
              /\ state[q] = "FULFILLED" /\ fulfilledValue[q] = origin[q].arg
              /\ \A a \in 1..Len(adoptions) : adoptions[a].p # q
        /\ origin[q].attached = "reject" =>
              state[q] = "REJECTED" /\ fulfilledValue[q] = origin[q].arg

\* C19 witness: both static methods were called, and a handler attached to
\* the promise of MyPromise.resolve was called with its value.
C19_Witness ==
    \E q, r \in 1..Len(state) :
        /\ origin[q].attached = "resolve"
        /\ origin[r].attached = "reject"
        /\ \E i \in 1..Len(Calls(q)) : Calls(q)[i].arg = origin[q].arg

\* The calls of the handlers of the then() call that made d.
CallsOf(d) ==
    {i \in 1..Len(Calls(origin[d].src)) : Calls(origin[d].src)[i].d = d}

\* The promises made for the calls of catch() by user code.
CatchMade == {d \in Derived : origin[d].arg.k = "catch" /\ origin[d].arg.h.k = "fn"}

\* C20: for the promise d that p.catch(h) makes: when p is FULFILLED, h is
\* never called and d takes the value of p; when p is REJECTED with r, h is
\* called with r, at most once and exactly once when the microtask queue is
\* drained, and never while the call of catch() or the call that rejected
\* p is running.
C20_CatchIsThenUndefined ==
    /\ inline = FALSE
    /\ \A d \in CatchMade :
          LET p == origin[d].src
              h == origin[d].arg.h IN
          /\ state[p] = "PENDING" => CallsOf(d) = {}
          /\ state[p] = "FULFILLED" =>
                /\ CallsOf(d) = {}
                /\ Settled(d) =>
                      state[d] = "FULFILLED" /\ fulfilledValue[d] = fulfilledValue[p]
                /\ microtasks = <<>> => Settled(d)
          /\ state[p] = "REJECTED" =>
                /\ Cardinality(CallsOf(d)) <= 1
                /\ \A i \in CallsOf(d) :
                      Calls(p)[i].h = h /\ Calls(p)[i].arg = fulfilledValue[p]
                /\ microtasks = <<>> => Cardinality(CallsOf(d)) = 1

\* C20 witness: catch() was called on a promise before it rejected and
\* again after, and both handlers were called.
C20_Witness ==
    \E d, e \in CatchMade :
        /\ origin[d].src = origin[e].src
        /\ origin[d].attached = "pending" /\ origin[e].attached = "settled"
        /\ state[origin[e].src] = "REJECTED"
        /\ CallsOf(d) # {} /\ CallsOf(e) # {}

\* The promises made for the calls of finally() by user code.
FinallyMade == {d \in Derived : origin[d].arg.k = "finally"}

\* C21: for the promise d that p.finally(h) makes, h is both handlers of the
\* then() call; h is not called while p is PENDING; once p has settled,
\* either way, h is called at most once, exactly once when the microtask
\* queue is drained, with the value or reason of p; and d is then resolved
\* with what h returned (FULFILLED with it even when p was REJECTED), or
\* REJECTED with what h threw.
C21_FinallyIsThenBoth ==
    \A d \in FinallyMade :
        LET p == origin[d].src
            h == origin[d].arg.h IN
        /\ origin[d].onF = h /\ origin[d].onR = h
        /\ state[p] = "PENDING" => CallsOf(d) = {}
        /\ Settled(p) =>
              /\ Cardinality(CallsOf(d)) <= 1
              /\ microtasks = <<>> => Cardinality(CallsOf(d)) = 1 /\ Settled(d)
        /\ \A i \in CallsOf(d) :
              /\ Calls(p)[i].h = h /\ Calls(p)[i].arg = fulfilledValue[p]
              /\ Settled(d)
              /\ h.op = "ret" => state[d] = "FULFILLED" /\ fulfilledValue[d] = h.x
              /\ h.op = "throw" => state[d] = "REJECTED" /\ fulfilledValue[d] = h.x

\* The reads of a then member that threw, with nothing else done by the
\* accessor, and the adoptions whose then threw before it called a callback.
ThrowingReads ==
    {rd \in thenReads :
        rd.v.k = "thenable" /\ rd.v.get.ret = "throw" /\ rd.v.get.eff = "none"}
ThrowingCalls ==
    {a \in 1..Len(adoptions) :
        /\ adoptions[a].t.k = "thenable"
        /\ adoptions[a].t.steps # <<>>
        /\ adoptions[a].t.steps[1].op = "throw"}

\* C22: a promise resolved with a value whose then member threw e when read
\* is REJECTED with e, and a promise resolved with a thenable whose then threw
\* e before calling either callback is REJECTED with e; no error leaves the
\* resolve routine.
C22_ThenThrowRejects ==
    /\ ~uncaught
    /\ \A rd \in ThrowingReads :
          state[rd.p] = "REJECTED" /\ fulfilledValue[rd.p] = rd.v.get.x
    /\ \A a \in ThrowingCalls :
          /\ state[adoptions[a].p] = "REJECTED"
          /\ fulfilledValue[adoptions[a].p] = adoptions[a].t.steps[1].x
          /\ adoptLog[a] = <<>>

\* C22 witness: the read of then threw for one promise and the call of then
\* threw for another, one of them a promise that then() made.
C22_Witness ==
    \E rd \in ThrowingReads : \E a \in ThrowingCalls :
        /\ rd.p # adoptions[a].p
        /\ origin[rd.p].src # 0 \/ origin[adoptions[a].p].src # 0

\* The adoptions of a thenable whose then uses its callbacks twice, the
\* values of its uses after the first, and the adoption of the thenable that
\* the first use of adoption a delivered.
TwiceCalls ==
    {a \in 1..Len(adoptions) :
        adoptions[a].t.k = "thenable" /\ Len(adoptions[a].t.steps) = 2}
LaterUses(a) == {adoptions[a].t.steps[i].x : i \in 2..Len(adoptions[a].t.steps)}
NestedAdoptions(a) ==
    {n \in 1..Len(adoptions) :
        /\ n # a
        /\ adoptions[n].p = adoptions[a].p
        /\ adoptions[n].t = adoptions[a].t.steps[1].x}

OnceReads == {rd \in thenReads : rd.v.k = "thenable" /\ rd.v.get.ret = "fnOnce"}

\* C24: a call of the resolve routine reads the then member of its argument
\* once: no promise reads the then of the same value again, and a promise
\* resolved with an object that hands out its then function only at the
\* first read calls that function and takes the value it delivers, rather
\* than the error of a second read.
C24_ThenReadOnce ==
    /\ \A rd \in thenReads : ~rd.again
    /\ \A rd \in OnceReads :
          /\ \E a \in 1..Len(adoptions) :
                adoptions[a].p = rd.p /\ adoptions[a].t = rd.v
          /\ state[rd.p] = "FULFILLED"
          /\ fulfilledValue[rd.p] = rd.v.steps[1].x

\* C24 witness: a promise of user code and a promise that then() made were
\* each resolved with such an object.
C24_Witness ==
    \E r1, r2 \in OnceReads : origin[r1.p].src = 0 /\ origin[r2.p].src # 0

\* The promises of the then() calls made while the source was pending: one
\* handler record each.
AttachedPending == {d \in Derived : origin[d].attached = "pending"}

\* C25: a handler record attached while its promise was pending does not
\* run while the promise is PENDING, runs at most once, and has run exactly
\* once when the promise has settled and the microtask queue is drained.
C25_RecordRunsOnce ==
    \A d \in AttachedPending :
        /\ ~origin[d].ranPending
        /\ state[origin[d].src] = "PENDING" => origin[d].settleRuns = 0
        /\ origin[d].settleRuns <= 1
        /\ Settled(origin[d].src) /\ microtasks = <<>> => origin[d].settleRuns = 1

\* The promises made by the calls of then(), catch() and finally() of user
\* code on p, and the calls of all() and race() that p was passed to.
MethodsOn(p) ==
    {d \in Derived : origin[d].src = p /\ ~InternalFn(origin[d].onF)}
PassedTo(p) ==
    {q \in AllCalls \cup RaceCalls :
        \E i \in 1..Len(Inputs(q)) : Inputs(q)[i] = p}

\* C26: a promise none of whose settling routines was entered is PENDING
\* with no value; no assignment to the state of a promise is made from
\* within a then() call on that promise, be it a call of user code, of
\* catch() or finally(), or one that all() or race() makes on an input; and
\* a promise has, after each call of a handler attached to it, the state and
\* value it had when the handler was called.
C26_Frame ==
    /\ \A p \in 1..Len(state) :
          /\ ~origin[p].touched =>
                state[p] = "PENDING" /\ fulfilledValue[p] = Undef /\ settleLog[p] = <<>>
          /\ \A i \in 1..Len(settleLog[p]) : ~settleLog[p][i].bySrc
    /\ \A src \in 1..Len(state) : \A i \in 1..Len(Calls(src)) :
          /\ state[src] = Calls(src)[i].srcState
          /\ fulfilledValue[src] = Calls(src)[i].arg

\* C26 witness: a promise whose callbacks were never called had a method
\* called on it and was passed to all() or race(), and the microtask queue
\* has drained after the block.
C26_Witness ==
    \E p \in 1..Len(state) :
        /\ ~origin[p].touched
        /\ MethodsOn(p) # {} /\ PassedTo(p) # {}
        /\ phase = "idle" /\ microtasks = <<>>

\* C27: the array of handler records of a promise that is not PENDING is
\* empty: the records are moved out of it at settlement and none is added
\* afterwards.
C27_HandlersDrained ==
    \A p \in 1..Len(state) : Settled(p) => handlers[p] = <<>>

\* C28: for a promise resolved with itself the resolve routine stops after
\* the rejection: the then member of the promise is not read in that call,
\* and its then is not called with the callbacks of an adoption.
C28_SelfResolutionStops ==
    \A p \in selfResolved :
        /\ \A rd \in thenReads : ~(rd.p = p /\ rd.v = P(p))
        /\ \A a \in 1..Len(adoptions) : ~(adoptions[a].p = p /\ adoptions[a].t = P(p))
        /\ \A d \in Derived : origin[d].src = p => ~InternalFn(origin[d].onF)

\* Two then() calls of user code on the same promise with the same two
\* arguments, d made while the promise was pending and e after it settled.
SamePair(d, e) ==
    /\ origin[d].src = origin[e].src
    /\ origin[d].onF = origin[e].onF
    /\ origin[d].onR = origin[e].onR
    /\ ~InternalFn(origin[d].onF)
    /\ origin[d].attached = "pending"
    /\ origin[e].attached = "settled"

\* C29: of two then() calls on the same promise with the same arguments, one
\* made while it was pending and one after it settled, the two derived
\* promises, once settled, hold the same state and the same value, and with
\* the microtask queue drained either both have settled or neither has.
C29_PendingSettledSame ==
    \A d, e \in Derived :
        SamePair(d, e) =>
            /\ Settled(d) /\ Settled(e) =>
                  state[d] = state[e] /\ fulfilledValue[d] = fulfilledValue[e]
            /\ microtasks = <<>> => (Settled(d) <=> Settled(e))

\* C29 witness: two such then() calls whose handler was called, on a
\* promise that was rejected, have both settled.
C29_Witness ==
    \E d, e \in Derived :
        /\ SamePair(d, e)
        /\ state[origin[d].src] = "REJECTED"
        /\ CallsOf(d) # {} /\ CallsOf(e) # {}
        /\ Settled(d) /\ Settled(e)

\* The adoptions of a thenable that keeps its callbacks, and the values and
\* reasons that user code settles a promise with itself.
KeptCallbacks ==
    {a \in 1..Len(adoptions) : adoptions[a].t.k = "thenable" /\ adoptions[a].t.later}
DirectValues == {Plain(1)} \cup Reasons \cup {Err(3)}

\* C30: a promise resolved with a thenable that keeps its callbacks is not
\* locked in.  When its executor throws after that resolve call, it is
\* REJECTED with what was thrown; when its state is assigned outside the
\* callbacks of an adoption, by a call of its resolve with a plain value or
\* of its reject, it holds what that call stored, and no call of the
\* thenable's callbacks got through, before or after; its state is assigned
\* at most once.
C30_NotLockedIn ==
    \A a \in KeptCallbacks :
        LET p == adoptions[a].p IN
        /\ Len(settleLog[p]) <= 1
        /\ origin[p].thrown # Undef /\ origin[p].threwPending =>
              state[p] = "REJECTED" /\ fulfilledValue[p] = origin[p].thrown
        /\ settleLog[p] # <<>> /\ settleLog[p][1].via = 0 =>
              /\ adoptLog[a] = <<>>
              /\ state[p] = settleLog[p][1].state
              /\ fulfilledValue[p] = settleLog[p][1].value
              /\ fulfilledValue[p] \in DirectValues
        /\ adoptLog[a] # <<>> =>
              /\ settleLog[p] # <<>>
              /\ settleLog[p][1].via \in KeptCallbacks
              /\ fulfilledValue[p] = adoptLog[a][1].x

\* C30 witness: a promise resolved with such a thenable was then fulfilled
\* by a call of its resolve with a plain value, and the thenable called its
\* fulfil callback afterwards, to no effect.
C30_Witness ==
    \E a \in KeptCallbacks :
        LET p == adoptions[a].p IN
        /\ state[p] = "FULFILLED" /\ fulfilledValue[p] = Plain(1)
        /\ settleLog[p][1].via = 0
        /\ adoptions[a].called
        /\ adoptLog[a] = <<>>

\* C31: a handler of a then() call made while the promise was pending is
\* called in the second microtask after the settling (the run of the stored
\* record, then the call it queues), a handler of a then() call made on a
\* settled promise in the first microtask after that call; and the derived
\* promise is settled by the microtask in which a handler returned a plain
\* value or threw.
C31_MicrotaskHops ==
    \A src \in 1..Len(state) : \A i \in 1..Len(Calls(src)) :
        LET c == Calls(src)[i] IN
        /\ origin[c.d].attached = "pending" => c.hops = 2
        /\ origin[c.d].attached = "settled" => c.hops = 1
        /\ c.h.op = "throw" \/ (c.h.op = "ret" /\ c.h.x.k = "val") => Settled(c.d)

\* C31 witness: on one promise, a handler attached while it was pending and
\* a handler attached after it settled were both called.
C31_Witness ==
    \E src \in 1..Len(state) : \E i, j \in 1..Len(Calls(src)) :
        /\ origin[Calls(src)[i].d].attached = "pending" /\ Calls(src)[i].hops = 2
        /\ origin[Calls(src)[j].d].attached = "settled" /\ Calls(src)[j].hops = 1

\* C32: for every then() call, the two handlers together are called at most
\* once: the fulfilment handler only when the source is FULFILLED, with its
\* value, and the rejection handler only when the source is REJECTED, with
\* its reason.
C32_OneHandlerOnce ==
    \A d \in Derived :
        /\ Cardinality(CallsOf(d)) <= 1
        /\ \A i \in CallsOf(d) :
              LET c == Calls(origin[d].src)[i] IN
              /\ c.arg = fulfilledValue[origin[d].src]
              /\ \/ c.h = origin[d].onF /\ c.srcState = "FULFILLED"
                 \/ c.h = origin[d].onR /\ c.srcState = "REJECTED"

\* C33: under fair running of the blocks and of the microtask queue, every
\* promise that then() derived from a promise that has settled settles
\* itself, whether its handler returns a plain value, throws, returns a
\* thenable that calls back, or is absent; so does the last promise of a
\* chain of then() calls.
C33_DerivedSettles ==
    \A d \in 1..MaxPromises :
        (d <= Len(state) /\ origin[d].src # 0 /\ Settled(origin[d].src))
            ~> (d <= Len(state) /\ Settled(d))

\* C33 witness: a chain of two then() calls, the first made on a promise
\* that had settled, whose handler returned a thenable; the last promise of
\* the chain has settled.
C33_Witness ==
    \E d, e \in Derived :
        /\ origin[e].src = d
        /\ origin[d].attached = "settled"
        /\ origin[d].onF.k = "fn" /\ origin[d].onF.x.k = "thenable"
        /\ CallsOf(d) # {}
        /\ Settled(e)

\* The promises whose executor threw after it had settled them.
ThrewSettled ==
    {p \in 1..Len(state) : origin[p].thrown # Undef /\ ~origin[p].threwPending}

\* C34: an executor that settles its promise with a plain value or a reason
\* and then throws leaves the promise as the earlier call settled it: the
\* promise settled once, it keeps that state and value, what was thrown is
\* not its value and does not leave the constructor.
C34_LateThrowDiscarded ==
    /\ ~uncaught
    /\ \A p \in ThrewSettled :
          /\ Len(settleLog[p]) = 1
          /\ state[p] = settleLog[p][1].state
          /\ fulfilledValue[p] = settleLog[p][1].value
          /\ fulfilledValue[p] # origin[p].thrown
          /\ \/ state[p] = "FULFILLED" /\ fulfilledValue[p] = Plain(1)
             \/ state[p] = "REJECTED" /\ fulfilledValue[p] \in Reasons

\* C34 witness: one executor resolved and then threw, another rejected and
\* then threw.
C34_Witness ==
    \E p, q \in ThrewSettled : state[p] = "FULFILLED" /\ state[q] = "REJECTED"

\* The promises that then() made for a call of catch() or of finally().
ConvenienceMade == {d \in Derived : origin[d].arg.k \in {"catch", "finally"}}

\* C35: the promise that then() makes for a call of catch() or of finally()
\* is not returned to the caller, and so nothing observes what the handler
\* returned or threw: no handler is ever attached to that promise, no
\* promise is derived from it, no handler is called with its outcome, and it
\* is an input of no all() or race() call.
C35_NothingAfterConvenience ==
    \A d \in ConvenienceMade :
        /\ ~origin[d].held
        /\ handlers[d] = <<>>
        /\ \A e \in Derived : origin[e].src # d
        /\ Calls(d) = <<>>
        /\ PassedTo(d) = {}

\* C35 witness: the handler given to catch() threw and the handler given
\* to finally() returned, the promises made for them hold these outcomes,
\* and user code runs again with the microtask queue drained.
C35_Witness ==
    \E d, e \in ConvenienceMade :
        /\ origin[d].arg.k = "catch" /\ origin[e].arg.k = "finally"
        /\ CallsOf(d) # {} /\ CallsOf(e) # {}
        /\ state[d] = "REJECTED" /\ fulfilledValue[d] = Err(2)
        /\ state[e] = "FULFILLED" /\ fulfilledValue[e] = Plain(2)
        /\ phase = "sync" /\ microtasks = <<>>

\* The race() calls made with no input.
EmptyRaces == {q \in RaceCalls : Inputs(q) = <<>>}

\* C36: the promise of race() called with an empty sequence is PENDING in
\* every state: it has no value, it never settled, and neither of its
\* settling routines is ever entered.
C36_RaceOfNothingPending ==
    \A q \in EmptyRaces :
        /\ state[q] = "PENDING"
        /\ fulfilledValue[q] = Undef
        /\ settleLog[q] = <<>>
        /\ ~origin[q].touched

\* C36 witness: the promise of race() with no input was passed, after a
\* settled promise, to another race() call, whose promise has settled since.
C36_Witness ==
    \E q \in EmptyRaces : \E r \in PassedTo(q) :
        /\ Settled(r)
        /\ microtasks = <<>>

\* Input i was already settled, or already rejected, when the all() or
\* race() call q attached to it: the then() call that hands it the reject of
\* q found it settled.
SettledAtCall(q) ==
    {i \in 1..Len(Inputs(q)) :
        \E d \in Derived :
            /\ origin[d].src = Inputs(q)[i]
            /\ origin[d].onR = Settler("rej", q)
            /\ origin[d].attached = "settled"}
RejectedAtCall(q) ==
    {i \in SettledAtCall(q) : state[Inputs(q)[i]] = "REJECTED"}
Lowest(S) == CHOOSE i \in S : \A j \in S : i <= j
\* The place among the inputs of call q of the input that made the k-th
\* call of the resolve or reject of q.
DeliveredBy(q, k) ==
    CHOOSE i \in 1..Len(Inputs(q)) : Inputs(q)[i] = delivered[q][k].from

\* The then() calls that all() and race() make follow the call in input
\* order: race() makes one for each input, all() a then() and a catch().
AttachedInOrder(q) ==
    \A i \in 1..Len(Inputs(q)) :
        IF q \in RaceCalls
        THEN /\ origin[q + i].src = Inputs(q)[i]
             /\ origin[q + i].onF = Settler("res", q)
             /\ origin[q + i].onR = Settler("rej", q)
        ELSE /\ origin[q + 2 * i - 1].src = Inputs(q)[i]
             /\ origin[q + 2 * i - 1].onF.k = "allValue"
             /\ origin[q + 2 * i - 1].onF.index = i
             /\ origin[q + 2 * i - 1].onR = Undef
             /\ origin[q + 2 * i].src = Inputs(q)[i]
             /\ origin[q + 2 * i].onF = Undef
             /\ origin[q + 2 * i].onR = Settler("rej", q)

====
